---- MODULE Spec2Model ----
(***************************************************************************)
(* Node-graph editor (src/src/app.rs): NodeGraphApp and its per-frame      *)
(* `update`.  One step of the model is one frame: the whole `update` call  *)
(* applied to one input snapshot delivered by egui.                        *)
(*                                                                         *)
(* Coordinates are f32 in the program; every coordinate the model uses is  *)
(* a small integer, which f32 represents exactly, so Int arithmetic is the *)
(* program's arithmetic.  A Pos2 / Vec2 is a pair <<x, y>>, a Rect is      *)
(* [min, max], an Option is a sequence of length 0 (None) or 1 (Some).     *)
(*                                                                         *)
(* egui is the environment.  What the model takes from it:                 *)
(*   - at most one widget is dragged at a time; it is the topmost widget   *)
(*     under the pointer at the press, and it stays so until the release;  *)
(*   - a widget sensing only drags (the canvas) is dragged from the press  *)
(*     frame on, a widget sensing clicks and drags (header, ports, text)   *)
(*     from the frame egui decides the press is a drag;                    *)
(*   - one pointer button is held at a time and every frame sees at most   *)
(*     one transition of it; a secondary click can be reported in any      *)
(*     frame.                                                              *)
(***************************************************************************)
EXTENDS Integers, Sequences, FiniteSets, TLC

\* ---------------------------------------------------------------- bounds
MaxSize == 5
MinX == 100
MaxX == 340
MinY == 100
MaxY == 100
MaxPan == 240
MaxTextLen == 5
MaxTitleLen == 1
MaxEdited == 1
MaxCoord == 2

\* ------------------------------------------------------------- constants
NODE_W == 180
NODE_H == 130
NODE_SIZE == <<NODE_W, NODE_H>>
HEADER_HEIGHT == 28
PORT_HIT_RADIUS == 10
NODE_INNER_PADDING_X == 10
NODE_INNER_PADDING_Y == 8
PORT_OUTSET == 8
CONNECTION_HIT_THRESHOLD == 10

None == <<>>
Some(v) == <<v>>
IsSome(o) == Len(o) = 1
Unwrap(o) == o[1]

Input == "Input"
Output == "Output"
PortKind == {Input, Output}

\* f32: every integer below 2^24 in magnitude is a value; above, the values
\* are the multiples of 2^k with 24 significant bits, and a result is rounded
\* to the nearest value, ties to the even one.
F32_EXACT == 16777216

\* The distance between the values around the magnitude `a`: 2^k for the
\* least k with a < 2^(24+k).
Ulp(a) ==
    CHOOSE q \in {1, 2, 4, 8, 16, 32, 64, 128} :
        a \div F32_EXACT < q /\ (q = 1 \/ a \div F32_EXACT >= q \div 2)

\* The multiple of `q` nearest to `a`, the even one of two equally near.
RoundToMultiple(a, q) ==
    IF 2 * (a % q) > q \/ (2 * (a % q) = q /\ (a \div q) % 2 = 1)
    THEN (a \div q) * q + q
    ELSE (a \div q) * q

\* The f32 value nearest to `n`.
RoundF32(n) ==
    CHOOSE r \in { IF m < 0 THEN 0 - RoundToMultiple(0 - m, Ulp(0 - m))
                           ELSE RoundToMultiple(m, Ulp(m)) : m \in {n} } : TRUE

\* f32 + f32
F32Add(x, y) == RoundF32(x + y)

\* Vec2 + Vec2, Pos2 + Vec2 in the geometry of a frame, on exact integers.
VecAdd(a, b) == <<a[1] + b[1], a[2] + b[2]>>

\* Vec2 += Vec2, Pos2 += Vec2 on a stored value.
AddAssign(a, b) == <<F32Add(a[1], b[1]), F32Add(a[2], b[2])>>
VecZero == <<0, 0>>

\* Pos2::distance(a, b) <= r, on exact integers.
WithinDistance(a, b, r) ==
    (a[1] - b[1]) * (a[1] - b[1]) + (a[2] - b[2]) * (a[2] - b[2]) <= r * r

\* Rect::from_min_size
RectFromMinSize(min, size) == [min |-> min, max |-> VecAdd(min, size)]

\* Rect::from_center_size(center, Vec2::splat(2 * half))
RectFromCenterHalf(c, half) ==
    [min |-> <<c[1] - half, c[2] - half>>, max |-> <<c[1] + half, c[2] + half>>]

\* Rect::contains: both borders included.
RectContains(r, p) ==
    /\ r.min[1] <= p[1] /\ p[1] <= r.max[1]
    /\ r.min[2] <= p[2] /\ p[2] <= r.max[2]

RectCenterY(r) == (r.min[2] + r.max[2]) \div 2

\* ------------------------------------------------------------------ state
VARIABLES
    nodes,            \* Vec<Node>: sequence of [id, position, size]
    connections,      \* Vec<Connection>: sequence of [from_node_id, to_node_id]
    pan_offset,       \* Vec2
    dragging_canvas,  \* bool
    dragging_link,    \* Option<DragLinkState>
    next_node_id,     \* usize
    primary_down,     \* egui: primary button held at the end of the last frame
    pressed_on,       \* egui: Option<widget> the current press landed on
    captured,         \* egui: Option<widget> being dragged
    press_on_empty,   \* history: the current press began on empty canvas
    call,             \* Option<arguments> of a function evaluated on its own
    ret               \* Option<value> it returned

appVars == <<nodes, connections, pan_offset, dragging_canvas, dragging_link, next_node_id>>
envVars == <<primary_down, pressed_on, captured, press_on_empty>>
fnVars == <<call, ret>>
vars == <<nodes, connections, pan_offset, dragging_canvas, dragging_link, next_node_id,
          primary_down, pressed_on, captured, press_on_empty, call, ret>>

\* The NodeGraphApp value as one record, so that the steps of `update` compose.
Self ==
    [nodes |-> nodes, connections |-> connections, pan_offset |-> pan_offset,
     dragging_canvas |-> dragging_canvas, dragging_link |-> dragging_link,
     next_node_id |-> next_node_id]

\* A String is a sequence of characters; a character is the line feed NL or
\* any other character, written "c": the program looks at nothing else.
NL == "\n"
Chars(n) == [k \in 1..n |-> "c"]

\* Node { id, title, content, position, size } of the demo graph: a title of
\* 4 to 6 characters, the one-line content of 7 characters.
Node(id, position) ==
    [id |-> id, position |-> position, size |-> NODE_SIZE,
     title |-> Chars(IF id = 0 THEN 5 ELSE IF id = 1 THEN 4 ELSE 6),
     content |-> Chars(7)]
Connection(from, to) == [from_node_id |-> from, to_node_id |-> to]
DragLinkState(from, port, pos) == [from_node |-> from, from_port |-> port, current_pos |-> pos]

\* impl Default for NodeGraphApp
DefaultApp ==
    [nodes |-> << Node(0, <<100, 100>>), Node(1, <<340, 140>>), Node(2, <<580, 100>>) >>,
     connections |-> << Connection(0, 1), Connection(1, 2) >>,
     pan_offset |-> VecZero,
     dragging_canvas |-> FALSE,
     dragging_link |-> None,
     next_node_id |-> 3]

\* ----------------------------------------------- state management / query
\* Faulty variant: the counter is not advanced.
add_node_same_id(self) ==
    [self EXCEPT !.nodes = Append(self.nodes,
                                  Node(self.next_node_id, <<220 + self.next_node_id * 24, 220>>))]

\* The node add_node pushes: title "Node {id}", content ".....".
AddedNode(id) ==
    [Node(id, <<220 + id * 24, 220>>) EXCEPT !.title = Chars(IF id < 10 THEN 6 ELSE 7),
                                             !.content = Chars(5)]

\* Faulty variant: the node is put in front of the collection.
add_node_in_front(self) ==
    [self EXCEPT !.next_node_id = self.next_node_id + 1,
                 !.nodes = << AddedNode(self.next_node_id) >> \o self.nodes]

add_node(self) ==
    LET id == self.next_node_id IN
    [self EXCEPT !.next_node_id = id + 1,
                 !.nodes = Append(self.nodes, AddedNode(id))]

\* Index of the first node with the given id, 0 when there is none.
RECURSIVE FindIndex(_, _, _)
FindIndex(ns, id, i) ==
    IF i > Len(ns) THEN 0
    ELSE IF ns[i].id = id THEN i
    ELSE FindIndex(ns, id, i + 1)

\* Faulty variant: an id that is not found resolves to the first node.
node_by_id_or_first(self, id) ==
    LET i == FindIndex(self.nodes, id, 1) IN
    IF Len(self.nodes) = 0 THEN None
    ELSE IF i = 0 THEN Some(self.nodes[1]) ELSE Some(self.nodes[i])

node_by_id(self, id) ==
    LET i == FindIndex(self.nodes, id, 1) IN
    IF i = 0 THEN None ELSE Some(self.nodes[i])

\* ------------------------------------------------------------- geometry
node_rect_screen(self, node) ==
    RectFromMinSize(VecAdd(node.position, self.pan_offset), node.size)

port_pos_screen(self, node, port) ==
    LET rect == node_rect_screen(self, node) IN
    IF port = Input
    THEN <<rect.min[1] - PORT_OUTSET, RectCenterY(rect)>>
    ELSE <<rect.max[1] + PORT_OUTSET, RectCenterY(rect)>>

\* Faulty variant: only the output port is tested.
PortOfNodeAtOutputOnly(self, node, pointer_pos) ==
    IF WithinDistance(port_pos_screen(self, node, Output), pointer_pos, PORT_HIT_RADIUS)
    THEN Some(<<node.id, Output>>)
    ELSE None

\* The closure of port_at for one node.
PortOfNodeAt(self, node, pointer_pos) ==
    IF WithinDistance(port_pos_screen(self, node, Input), pointer_pos, PORT_HIT_RADIUS)
    THEN Some(<<node.id, Input>>)
    ELSE IF WithinDistance(port_pos_screen(self, node, Output), pointer_pos, PORT_HIT_RADIUS)
    THEN Some(<<node.id, Output>>)
    ELSE None

\* Faulty variant: the last node with a port under the pointer is returned.
PortAtFromLast(self, pointer_pos, i) ==
    LET hits == { k \in i..Len(self.nodes) :
                    IsSome(PortOfNodeAt(self, self.nodes[k], pointer_pos)) }
    IN IF hits = {} THEN None
       ELSE PortOfNodeAt(self, self.nodes[CHOOSE k \in hits : \A j \in hits : j <= k],
                         pointer_pos)

RECURSIVE PortAtFrom(_, _, _)
PortAtFrom(self, pointer_pos, i) ==
    IF i > Len(self.nodes) THEN None
    ELSE LET r == PortOfNodeAt(self, self.nodes[i], pointer_pos) IN
         IF IsSome(r) THEN r ELSE PortAtFrom(self, pointer_pos, i + 1)

port_at(self, pointer_pos) == PortAtFrom(self, pointer_pos, 1)

is_pointer_over_node(self, pointer_pos) ==
    \E i \in 1..Len(self.nodes) :
        RectContains(node_rect_screen(self, self.nodes[i]), pointer_pos)

\* Sub-pixel quantities (curve samples, projections) are kept in units of
\* 1/SCALE pixel, rounded down; pointer and port positions are whole pixels.
SCALE == 4
SAMPLES == 24
MIN_SPAN == 60

Abs(x) == IF x < 0 THEN 0 - x ELSE x
Max(a, b) == IF a >= b THEN a ELSE b
Scaled(p) == <<p[1] * SCALE, p[2] * SCALE>>

\* Faulty variant: the weights of p0 and p3 are exchanged.
BezierCoordReversed(c0, c1, c2, c3, i, den) ==
    LET u == den - i
    IN (i * i * i * c0 + 3 * u * u * i * c1 + 3 * u * i * i * c2 + u * u * u * c3)
           \div (den * den * den)

\* One coordinate of cubic_bezier_point at t = i / den:
\* u^3 p0 + 3 u^2 t p1 + 3 u t^2 p2 + t^3 p3 with u = 1 - t.
BezierCoord(c0, c1, c2, c3, i, den) ==
    LET u == den - i
    IN (u * u * u * c0 + 3 * u * u * i * c1 + 3 * u * i * i * c2 + i * i * i * c3)
           \div (den * den * den)

cubic_bezier_point(p0, p1, p2, p3, i, den) ==
    << BezierCoord(p0[1], p1[1], p2[1], p3[1], i, den),
       BezierCoord(p0[2], p1[2], p2[2], p3[2], i, den) >>

Dot(a, b) == a[1] * b[1] + a[2] * b[2]
VecSub(a, b) == <<a[1] - b[1], a[2] - b[2]>>

\* point_to_segment_distance(p, a, b) <= r, all in the same unit.
SegmentWithin(p, a, b, r) ==
    LET ab == VecSub(b, a)
        ap == VecSub(p, a)
        ab_len2 == Dot(ab, ab)
        d == Dot(ap, ab)
        proj == IF ab_len2 = 0 \/ d <= 0 THEN a
                ELSE IF d >= ab_len2 THEN b
                ELSE << a[1] + (d * ab[1]) \div ab_len2, a[2] + (d * ab[2]) \div ab_len2 >>
    IN WithinDistance(proj, p, r)

\* The closure of hit_test_connection for one connection: the minimum distance
\* from the pointer to the sampled polyline is within the threshold.
ConnectionNear(self, conn, pointer, threshold) ==
    LET from_node == node_by_id(self, conn.from_node_id)
        to_node == node_by_id(self, conn.to_node_id)
    IN IF ~IsSome(from_node) \/ ~IsSome(to_node) THEN FALSE
       ELSE
         LET from == Scaled(port_pos_screen(self, Unwrap(from_node), Output))
             to == Scaled(port_pos_screen(self, Unwrap(to_node), Input))
             horizontal == Abs(to[1] - from[1])
             curvature == (Max(horizontal, MIN_SPAN * SCALE) * 45) \div 100
             c1 == <<from[1] + curvature, from[2]>>
             c2 == <<to[1] - curvature, to[2]>>
             pts == [i \in 0..SAMPLES |-> cubic_bezier_point(from, c1, c2, to, i, SAMPLES)]
             p == Scaled(pointer)
         IN \E i \in 1..SAMPLES :
                SegmentWithin(p, pts[i - 1], pts[i], threshold * SCALE)

RECURSIVE HitTestFrom(_, _, _, _)
HitTestFrom(self, pointer, threshold, idx) ==
    IF idx > Len(self.connections) THEN None
    ELSE IF ConnectionNear(self, self.connections[idx], pointer, threshold) THEN Some(idx)
    ELSE HitTestFrom(self, pointer, threshold, idx + 1)

\* Faulty variant: the last connection within the threshold is selected.
hit_test_connection_last(self, pointer, threshold) ==
    LET near == { k \in 1..Len(self.connections) :
                    ConnectionNear(self, self.connections[k], pointer, threshold) }
    IN IF near = {} THEN None ELSE Some(CHOOSE k \in near : \A j \in near : j <= k)

hit_test_connection(self, pointer, threshold) == HitTestFrom(self, pointer, threshold, 1)

\* The curves draw_connections paints, as <<from, to>> in collection order:
\* a connection with an endpoint that does not resolve is skipped.
RECURSIVE DrawConnectionsFrom(_, _)
DrawConnectionsFrom(self, k) ==
    IF k > Len(self.connections) THEN <<>>
    ELSE
      LET from_node == node_by_id(self, self.connections[k].from_node_id)
          to_node == node_by_id(self, self.connections[k].to_node_id)
          rest == DrawConnectionsFrom(self, k + 1)
      IN IF ~IsSome(from_node) THEN rest
         ELSE IF ~IsSome(to_node) THEN rest
         ELSE << << port_pos_screen(self, Unwrap(from_node), Output),
                    port_pos_screen(self, Unwrap(to_node), Input) >> >> \o rest

draw_connections(self) == DrawConnectionsFrom(self, 1)

\* Vec::remove(index)
RemoveAt(s, idx) == [k \in 1..(Len(s) - 1) |-> IF k < idx THEN s[k] ELSE s[k + 1]]

\* ------------------------------------------------------ egui's responses
\* A widget is [kind, key]: the canvas, a node's header, title or content
\* text (key: index in `nodes`), or a node's input or output port (key: the
\* node id, from make_persistent_id(("output_port", node_id))).
Widget(kind, key) == [kind |-> kind, key |-> key]
Canvas == Widget("canvas", 0)

\* One frame's input snapshot:
\*   add_clicked, reset_clicked, clear_clicked  the side panel's buttons
\*   primary_down        i.pointer.primary_down()
\*   primary_released    i.pointer.button_released(Primary)
\*   interact_pos        i.pointer.interact_pos(): Option<Pos2>
\*   dragged             Option<widget> dragged in this frame
\*   drag_started        Option<widget> whose drag starts in this frame
\*   drag_stopped        Option<widget> whose drag stops in this frame
\*   drag_motion         the pointer's motion in this frame
\*   secondary_clicked   i.pointer.button_clicked(Secondary)
dragged_by_primary(in, w) == in.dragged = Some(w) /\ in.primary_down
drag_started(in, w) == in.drag_started = Some(w)
drag_started_by_primary(in, w) == in.drag_started = Some(w) /\ in.primary_down
drag_stopped_by_primary(in, w) == in.drag_stopped = Some(w) /\ in.primary_released
\* Response::interact_pointer_pos of a widget the pointer is interacting with.
interact_pointer_pos(in) == in.interact_pos

\* ------------------------------------------------------------ node text
\* text.split('\n'): the lines of `text`, at least one.
RECURSIVE SplitLines(_)
SplitLines(text) ==
    IF \A k \in 1..Len(text) : text[k] # NL THEN << text >>
    ELSE LET k == CHOOSE j \in 1..Len(text) :
                     text[j] = NL /\ \A h \in 1..(j - 1) : text[h] # NL
         IN << SubSeq(text, 1, k - 1) >> \o SplitLines(SubSeq(text, k + 1, Len(text)))

\* Iterator::take(n)
Take(seq, n) == SubSeq(seq, 1, IF n < Len(seq) THEN n ELSE Len(seq))

\* The loop of clamp_text_lines: the lines joined by '\n'.
RECURSIVE Merge(_)
Merge(lines) ==
    IF Len(lines) = 0 THEN << >>
    ELSE IF Len(lines) = 1 THEN lines[1]
    ELSE lines[1] \o << NL >> \o Merge(Tail(lines))

\* Faulty variant: the last max_lines lines are kept.
clamp_text_lines_keep_tail(text, max_lines) ==
    LET lines == SplitLines(text)
        from == IF Len(lines) > max_lines THEN Len(lines) - max_lines + 1 ELSE 1
    IN Merge(SubSeq(lines, from, Len(lines)))

clamp_text_lines(text, max_lines) ==
    LET merged == Merge(Take(SplitLines(text), max_lines))
    IN IF text # merged THEN merged ELSE text

\* Faulty variant: the header height is not subtracted.
max_content_lines_no_header(node_rect) ==
    Max((node_rect.max[2] - node_rect.min[2] - NODE_INNER_PADDING_Y * 2 - 12) \div 18, 1)

\* ((content_height / 18.0).floor() as usize).max(1): the cast of a negative
\* value gives 0.
max_content_lines(node_rect) ==
    LET content_height ==
          node_rect.max[2] - node_rect.min[2] - HEADER_HEIGHT - NODE_INNER_PADDING_Y * 2 - 12
    IN Max(Max(content_height \div 18, 0), 1)

\* The two TextEdit widgets of node `node_index`: the text the frame's
\* keyboard input leaves in the title and in the content.
EditText(self, in, node_index) ==
    IF IsSome(in.text_edit) /\ Unwrap(in.text_edit).node_index = node_index
    THEN IF Unwrap(in.text_edit).field = "title"
         THEN [self EXCEPT !.nodes[node_index].title = Unwrap(in.text_edit).text]
         ELSE [self EXCEPT !.nodes[node_index].content = Unwrap(in.text_edit).text]
    ELSE self

\* Self::clamp_text_lines(&mut node.content, Self::max_content_lines(node_rect))
ClampContent(self, node_index, node_rect) ==
    [self EXCEPT !.nodes[node_index].content =
         clamp_text_lines(self.nodes[node_index].content, max_content_lines(node_rect))]

\* ------------------------------------------------------------- draw_node
\* Faulty variant: a header drag moves the view as well as the node.
draw_node_drag_pans(self, in, node_index) ==
    IF dragged_by_primary(in, Widget("header", node_index))
    THEN [self EXCEPT !.nodes[node_index].position =
                          AddAssign(self.nodes[node_index].position, in.drag_motion),
                      !.pan_offset = AddAssign(self.pan_offset, in.drag_motion)]
    ELSE self

draw_node(self, in, node_index) ==
    LET node == self.nodes[node_index]
        node_rect == RectFromMinSize(VecAdd(node.position, self.pan_offset), node.size)
        dragged == IF dragged_by_primary(in, Widget("header", node_index))
                   THEN [self EXCEPT !.nodes[node_index].position =
                                          AddAssign(node.position, in.drag_motion)]
                   ELSE self
        moved == ClampContent(EditText(dragged, in, node_index), node_index, node_rect)
        node_id == node.id
        output_pos == <<node_rect.max[1], RectCenterY(node_rect)>>
    IN IF drag_started(in, Widget("output", node_id))
       THEN LET pointer_pos == IF IsSome(interact_pointer_pos(in))
                               THEN Unwrap(interact_pointer_pos(in))
                               ELSE output_pos
            IN [moved EXCEPT !.dragging_link =
                                 Some(DragLinkState(node_id, Output, pointer_pos))]
       ELSE moved

\* for node_index in 0..self.nodes.len() { self.draw_node(ui, node_index) }
RECURSIVE DrawNodes(_, _, _, _)
DrawNodes(self, in, node_index, len) ==
    IF node_index > len THEN self
    ELSE DrawNodes(draw_node(self, in, node_index), in, node_index + 1, len)

\* ------------------------------------------------------ input resolution
\* Faulty variants of the commit condition: one of the three rules is dropped.
CommitAllowedNoSelfCheck(target_port, target_node_id, from_node, duplicate_exists) ==
    target_port = Input /\ ~duplicate_exists

CommitAllowedNoDuplicateCheck(target_port, target_node_id, from_node, duplicate_exists) ==
    target_port = Input /\ target_node_id # from_node

CommitAllowedAnyPort(target_port, target_node_id, from_node, duplicate_exists) ==
    target_node_id # from_node /\ ~duplicate_exists

\* target_port == Input && target_node_id != link.from_node && !duplicate_exists
CommitAllowed(target_port, target_node_id, from_node, duplicate_exists) ==
    /\ target_port = Input
    /\ target_node_id # from_node
    /\ ~duplicate_exists

\* Faulty variant: a connection in the opposite direction counts as a duplicate.
CommitLinkEitherDirection(self, in, link) ==
    LET target == IF IsSome(in.interact_pos)
                  THEN port_at(self, Unwrap(in.interact_pos))
                  ELSE None
    IN IF ~IsSome(target) THEN self
       ELSE
         LET target_node_id == Unwrap(target)[1]
             target_port == Unwrap(target)[2]
             duplicate_exists ==
               \E k \in 1..Len(self.connections) :
                   \/ /\ self.connections[k].from_node_id = link.from_node
                      /\ self.connections[k].to_node_id = target_node_id
                   \/ /\ self.connections[k].from_node_id = target_node_id
                      /\ self.connections[k].to_node_id = link.from_node
         IN IF CommitAllowed(target_port, target_node_id, link.from_node, duplicate_exists)
            THEN [self EXCEPT !.connections =
                      Append(self.connections, Connection(link.from_node, target_node_id))]
            ELSE self

\* The release's effect on the collection: the body of the `if let Some(pointer_pos)`.
CommitLink(self, in, link) ==
    LET target == IF IsSome(in.interact_pos)
                  THEN port_at(self, Unwrap(in.interact_pos))
                  ELSE None
    IN IF ~IsSome(target) THEN self
       ELSE
         LET target_node_id == Unwrap(target)[1]
             target_port == Unwrap(target)[2]
             duplicate_exists ==
               \E k \in 1..Len(self.connections) :
                   /\ self.connections[k].from_node_id = link.from_node
                   /\ self.connections[k].to_node_id = target_node_id
         IN IF CommitAllowed(target_port, target_node_id, link.from_node, duplicate_exists)
            THEN [self EXCEPT !.connections =
                      Append(self.connections, Connection(link.from_node, target_node_id))]
            ELSE self

\* Faulty variant: the drag state is reset only inside `if let Some(pointer_pos)`.
finish_dragging_link_needs_pointer(self, in) ==
    IF ~IsSome(self.dragging_link) THEN self
    ELSE IF in.primary_down THEN self
    ELSE IF ~IsSome(in.interact_pos) THEN self
    ELSE [CommitLink(self, in, Unwrap(self.dragging_link)) EXCEPT !.dragging_link = None]

finish_dragging_link_if_needed(self, in) ==
    IF ~IsSome(self.dragging_link) THEN self
    ELSE IF in.primary_down THEN self
    ELSE [CommitLink(self, in, Unwrap(self.dragging_link)) EXCEPT !.dragging_link = None]

\* Whether a canvas drag that starts at `pointer_pos` pans the canvas.
StartsOnEmptyCanvas(self, pointer_pos) ==
    /\ IsSome(pointer_pos)
    /\ ~is_pointer_over_node(self, Unwrap(pointer_pos))
    /\ ~IsSome(port_at(self, Unwrap(pointer_pos)))

\* Faulty variant: the flag is not reset when the button is up.
handle_canvas_pan_never_reset(self, in) ==
    LET started ==
          IF drag_started_by_primary(in, Canvas)
          THEN [self EXCEPT !.dragging_canvas = StartsOnEmptyCanvas(self, interact_pointer_pos(in))]
          ELSE self
    IN IF started.dragging_canvas /\ dragged_by_primary(in, Canvas)
       THEN [started EXCEPT !.pan_offset = AddAssign(started.pan_offset, in.drag_motion)]
       ELSE started

\* Faulty variant: ports are not excluded from the start of a pan.
handle_canvas_pan_over_ports(self, in) ==
    LET started ==
          IF drag_started_by_primary(in, Canvas)
          THEN [self EXCEPT !.dragging_canvas =
                   /\ IsSome(interact_pointer_pos(in))
                   /\ ~is_pointer_over_node(self, Unwrap(interact_pointer_pos(in)))]
          ELSE self
        panned ==
          IF started.dragging_canvas /\ dragged_by_primary(in, Canvas)
          THEN [started EXCEPT !.pan_offset = AddAssign(started.pan_offset, in.drag_motion)]
          ELSE started
    IN IF drag_stopped_by_primary(in, Canvas) \/ ~in.primary_down
       THEN [panned EXCEPT !.dragging_canvas = FALSE]
       ELSE panned

handle_canvas_pan(self, in) ==
    LET started ==
          IF drag_started_by_primary(in, Canvas)
          THEN [self EXCEPT !.dragging_canvas = StartsOnEmptyCanvas(self, interact_pointer_pos(in))]
          ELSE self
        panned ==
          IF started.dragging_canvas /\ dragged_by_primary(in, Canvas)
          THEN [started EXCEPT !.pan_offset = AddAssign(started.pan_offset, in.drag_motion)]
          ELSE started
    IN IF drag_stopped_by_primary(in, Canvas) \/ ~in.primary_down
       THEN [panned EXCEPT !.dragging_canvas = FALSE]
       ELSE panned

\* ---------------------------------------------------------------- update
\* Faulty variant: Clear Links resets the view too.
SidePanelClearResetsView(self, in) ==
    LET a == IF in.add_clicked THEN add_node(self) ELSE self
        r == IF in.reset_clicked THEN [a EXCEPT !.pan_offset = VecZero] ELSE a
    IN IF in.clear_clicked THEN [r EXCEPT !.connections = <<>>, !.pan_offset = VecZero] ELSE r

\* Faulty variant: Clear Links removes the last connection only.
SidePanelClearDropsLast(self, in) ==
    LET a == IF in.add_clicked THEN add_node(self) ELSE self
        r == IF in.reset_clicked THEN [a EXCEPT !.pan_offset = VecZero] ELSE a
    IN IF in.clear_clicked
       THEN [r EXCEPT !.connections = SubSeq(r.connections, 1, Len(r.connections) - 1)]
       ELSE r

\* The side panel: the three buttons, in the order they are laid out.
SidePanel(self, in) ==
    LET a == IF in.add_clicked THEN add_node(self) ELSE self
        r == IF in.reset_clicked THEN [a EXCEPT !.pan_offset = VecZero] ELSE a
    IN IF in.clear_clicked THEN [r EXCEPT !.connections = <<>>] ELSE r

\* if let Some(link) = &mut self.dragging_link { link.current_pos = pointer_pos }
UpdateLinkPointer(self, in) ==
    IF IsSome(self.dragging_link) /\ IsSome(in.interact_pos)
    THEN [self EXCEPT !.dragging_link =
             Some([Unwrap(self.dragging_link) EXCEPT !.current_pos = Unwrap(in.interact_pos)])]
    ELSE self

\* The secondary click: remove the connection under the pointer.
SecondaryClick(self, in) ==
    IF in.secondary_clicked /\ IsSome(in.interact_pos)
    THEN LET index == hit_test_connection(self, Unwrap(in.interact_pos),
                                          CONNECTION_HIT_THRESHOLD)
         IN IF IsSome(index)
            THEN [self EXCEPT !.connections = RemoveAt(self.connections, Unwrap(index))]
            ELSE self
    ELSE self

\* Faulty variant: the secondary click is resolved after the link-drag completion.
CanvasPassClickLast(self, in) ==
    LET drawn == DrawNodes(self, in, 1, Len(self.nodes))
        tracked == UpdateLinkPointer(drawn, in)
        finished == finish_dragging_link_if_needed(tracked, in)
    IN handle_canvas_pan(SecondaryClick(finished, in), in)

\* The central panel's closure.
CanvasPass(self, in) ==
    LET drawn == DrawNodes(self, in, 1, Len(self.nodes))
        tracked == UpdateLinkPointer(drawn, in)
        clicked == SecondaryClick(tracked, in)
        finished == finish_dragging_link_if_needed(clicked, in)
    IN handle_canvas_pan(finished, in)

update(self, in) == CanvasPass(SidePanel(self, in), in)

\* ----------------------------------------------------- egui: hit testing
\* The rectangles draw_node registers for node `i`, as laid out from `self`.
header_rect(self, i) ==
    LET r == node_rect_screen(self, self.nodes[i])
    IN RectFromMinSize(r.min, <<r.max[1] - r.min[1], HEADER_HEIGHT>>)

input_hit_rect(self, i) ==
    LET r == node_rect_screen(self, self.nodes[i])
    IN RectFromCenterHalf(<<r.min[1], RectCenterY(r)>>, PORT_HIT_RADIUS)

\* Faulty variant: the rectangle's side is the hit radius, not twice the hit radius.
output_hit_rect_half_size(self, i) ==
    LET r == node_rect_screen(self, self.nodes[i])
    IN RectFromCenterHalf(<<r.max[1], RectCenterY(r)>>, PORT_HIT_RADIUS \div 2)

output_hit_rect(self, i) ==
    LET r == node_rect_screen(self, self.nodes[i])
    IN RectFromCenterHalf(<<r.max[1], RectCenterY(r)>>, PORT_HIT_RADIUS)

title_rect(self, i) ==
    LET h == header_rect(self, i)
    IN [min |-> <<h.min[1] + NODE_INNER_PADDING_X, h.min[2] + 5>>,
        max |-> <<h.max[1] - NODE_INNER_PADDING_X, h.max[2] - 5>>]

content_text_rect(self, i) ==
    LET r == node_rect_screen(self, self.nodes[i])
        h == header_rect(self, i)
    IN [min |-> <<r.min[1] + NODE_INNER_PADDING_X + 8, h.max[2] + NODE_INNER_PADDING_Y + 6>>,
        max |-> <<r.max[1] - NODE_INNER_PADDING_X - 8, r.max[2] - NODE_INNER_PADDING_Y - 6>>]

\* The topmost widget of node `i` under `p`: draw_node registers the header,
\* the input port, the output port, the title and the content, in this order.
NodeWidgetAt(self, i, p) ==
    IF RectContains(content_text_rect(self, i), p) THEN Some(Widget("content", i))
    ELSE IF RectContains(title_rect(self, i), p) THEN Some(Widget("title", i))
    ELSE IF RectContains(output_hit_rect(self, i), p) THEN Some(Widget("output", self.nodes[i].id))
    ELSE IF RectContains(input_hit_rect(self, i), p) THEN Some(Widget("input", self.nodes[i].id))
    ELSE IF RectContains(header_rect(self, i), p) THEN Some(Widget("header", i))
    ELSE None

\* The widget a press at `p` lands on: nodes are drawn in collection order
\* over the canvas, so the last node with a widget under `p` is on top.
RECURSIVE WidgetAtFrom(_, _, _)
WidgetAtFrom(self, p, i) ==
    IF i = 0 THEN Canvas
    ELSE LET w == NodeWidgetAt(self, i, p) IN
         IF IsSome(w) THEN Unwrap(w) ELSE WidgetAtFrom(self, p, i - 1)

WidgetAt(self, p) == WidgetAtFrom(self, p, Len(self.nodes))

\* ----------------------------------------------------- the frame's inputs
\* Drag motions of one frame.
Motions == { <<0, 0>>, <<240, 40>>, <<-240, -40>> }

EmptyPoint == <<40, 400>>

\* The sample 12 of 24 of the curve of connection `k`, in whole pixels.
LinkMid(self, k) ==
    LET conn == self.connections[k]
        from == port_pos_screen(self, Unwrap(node_by_id(self, conn.from_node_id)), Output)
        to == port_pos_screen(self, Unwrap(node_by_id(self, conn.to_node_id)), Input)
        curvature == (Max(Abs(to[1] - from[1]), MIN_SPAN) * 45) \div 100
    IN cubic_bezier_point(from, <<from[1] + curvature, from[2]>>,
                          <<to[1] - curvature, to[2]>>, to, 1, 2)

\* Pointer positions around node `i`: its two ports, a point of the output
\* port's rectangle inside the node, a point beyond the output port, a point
\* of the header's margin and a point of the body's margin.
PortPoints(self, i) ==
    { port_pos_screen(self, self.nodes[i], Input),
      port_pos_screen(self, self.nodes[i], Output) }

NodePoints(self, i) ==
    LET r == node_rect_screen(self, self.nodes[i])
        cy == RectCenterY(r)
    IN PortPoints(self, i) \cup
       { <<r.max[1] - PORT_HIT_RADIUS, cy>>,
         <<r.max[1] + PORT_OUTSET + PORT_HIT_RADIUS, cy>>,
         <<r.min[1] + 4, r.min[2] + 2>>,
         <<r.min[1] + 4, r.min[2] + 100>> }

\* Where a press can land.
PressPoints(self) ==
    {EmptyPoint} \cup UNION { NodePoints(self, i) : i \in 1..Len(self.nodes) }

InputPortPointers(self) ==
    { Some(port_pos_screen(self, self.nodes[i], Input)) : i \in 1..Len(self.nodes) }

\* Option<Pos2> values of i.pointer.interact_pos() at a release.
ReleasePointers(self) ==
    {None, Some(EmptyPoint)}
      \cup { Some(p) : p \in UNION { PortPoints(self, i) : i \in 1..Len(self.nodes) } }

\* ... of a secondary click over the canvas.
ClickPointers(self) ==
    {Some(EmptyPoint)} \cup { Some(LinkMid(self, k)) : k \in 1..Len(self.connections) }

\* ... while a button is held.
HeldPointers(self) == {None, Some(EmptyPoint)}

PanelClicks == {"none", "add", "reset", "clear"}

Snapshot(panel, down, released, pos, dragged, started, stopped, motion, secondary) ==
    [add_clicked |-> panel = "add",
     reset_clicked |-> panel = "reset",
     clear_clicked |-> panel = "clear",
     primary_down |-> down,
     primary_released |-> released,
     interact_pos |-> pos,
     dragged |-> dragged,
     drag_started |-> started,
     drag_stopped |-> stopped,
     drag_motion |-> motion,
     secondary_clicked |-> secondary,
     text_edit |-> None]

\* No button held before or after the frame: <<panel, pointer, secondary>>.
HoverCombos ==
    { <<panel, None, FALSE>> : panel \in PanelClicks }
      \cup { <<"none", pos, TRUE>> : pos \in ClickPointers(Self) }
      \cup { <<panel, Some(EmptyPoint), TRUE>> : panel \in PanelClicks }

HoverInputs ==
    { Snapshot(c[1], FALSE, FALSE, c[2], None, None, None, VecZero, c[3]) :
        c \in HoverCombos }

\* The primary button goes down at `p`: the canvas is dragged at once.
PressInput(p, panel, motion) ==
    LET w == WidgetAt(Self, p)
        d == IF w = Canvas THEN Some(Canvas) ELSE None
    IN Snapshot(panel, TRUE, FALSE, Some(p), d, d, None, motion, FALSE)

PressInputs ==
    { PressInput(p, "none", VecZero) : p \in PressPoints(Self) }
    \cup
    { PressInput(p, "none", motion) :
        p \in { q \in PressPoints(Self) : WidgetAt(Self, q) = Canvas },
        motion \in Motions }
    \cup
    { PressInput(EmptyPoint, panel, VecZero) : panel \in PanelClicks }

\* The primary button stays down: the drag of the pressed widget goes on, or
\* starts now if egui had not yet decided that the press is a drag.
HoldDragged == IF captured # None THEN {captured} ELSE {None, pressed_on}

HoldInputs ==
    { Snapshot(panel, TRUE, FALSE, pos, d, IF d # captured THEN d ELSE None, None,
               motion, FALSE) :
        panel \in PanelClicks, pos \in HeldPointers(Self), motion \in Motions, d \in HoldDragged }

\* The primary button goes up: the drag, if any, stops.
ReleaseCombos ==
    { <<"none", pos, FALSE>> : pos \in ReleasePointers(Self) }
      \cup { <<"none", pos, TRUE>> : pos \in InputPortPointers(Self) }
      \cup { <<"clear", pos, FALSE>> : pos \in InputPortPointers(Self) }
      \cup { <<panel, None, FALSE>> : panel \in PanelClicks }

ReleaseInputs ==
    { Snapshot(c[1], FALSE, TRUE, c[2], None, None, captured, VecZero, c[3]) :
        c \in ReleaseCombos }

\* A drag with the secondary button starts on the widget under `p0`.
SecondaryDragInputs ==
    { Snapshot("none", FALSE, FALSE, pos, Some(WidgetAt(Self, p0)),
               Some(WidgetAt(Self, p0)), None, VecZero, FALSE) :
        p0 \in { port_pos_screen(Self, Self.nodes[i], Output) : i \in 1..Len(Self.nodes) },
        pos \in {None} \cup InputPortPointers(Self) }

\* ------------------------------------------------------------ the frames
\* The model's bounds on what a frame may produce.
InBounds(old, new) ==
    /\ Len(new.nodes) + Len(new.connections) <= MaxSize
    /\ new.pan_offset[1] >= 0
    /\ new.pan_offset[1] <= MaxPan
    /\ \A i \in 1..Len(old.nodes) :
         \/ new.nodes[i].position = old.nodes[i].position
         \/ /\ new.nodes[i].position[1] >= MinX
            /\ new.nodes[i].position[1] <= MaxX
            /\ new.nodes[i].position[2] >= MinY
            /\ new.nodes[i].position[2] <= MaxY

\* One call of `update` on the snapshot `in`.
FrameApp(in) ==
    \E new \in { n \in {update(Self, in)} : InBounds(Self, n) } :
    /\ nodes' = new.nodes
    /\ connections' = new.connections
    /\ pan_offset' = new.pan_offset
    /\ dragging_canvas' = new.dragging_canvas
    /\ dragging_link' = new.dragging_link
    /\ next_node_id' = new.next_node_id

Frame(in) == FrameApp(in) /\ UNCHANGED fnVars

Hover ==
    /\ ~primary_down
    /\ \E in \in HoverInputs : Frame(in)
    /\ UNCHANGED envVars

Press ==
    /\ ~primary_down
    /\ \E in \in PressInputs :
         /\ Frame(in)
         /\ primary_down' = TRUE
         /\ pressed_on' = Some(WidgetAt(Self, Unwrap(in.interact_pos)))
         /\ captured' = in.dragged
         /\ press_on_empty' =
              LET s == SidePanel(Self, in)
                  p == Unwrap(in.interact_pos)
              IN ~is_pointer_over_node(s, p) /\ ~IsSome(port_at(s, p))

Hold ==
    /\ primary_down
    /\ \E in \in HoldInputs :
         /\ Frame(in)
         /\ captured' = in.dragged
    /\ UNCHANGED <<primary_down, pressed_on, press_on_empty>>

Release ==
    /\ primary_down
    /\ \E in \in ReleaseInputs : Frame(in)
    /\ primary_down' = FALSE
    /\ pressed_on' = None
    /\ captured' = None
    /\ press_on_empty' = FALSE

SecondaryDrag ==
    /\ ~primary_down
    /\ \E in \in SecondaryDragInputs : Frame(in)
    /\ UNCHANGED envVars

Init ==
    /\ nodes = DefaultApp.nodes
    /\ connections = DefaultApp.connections
    /\ pan_offset = DefaultApp.pan_offset
    /\ dragging_canvas = DefaultApp.dragging_canvas
    /\ dragging_link = DefaultApp.dragging_link
    /\ next_node_id = DefaultApp.next_node_id
    /\ primary_down = FALSE
    /\ pressed_on = None
    /\ captured = None
    /\ press_on_empty = FALSE
    /\ call = None
    /\ ret = None

Next == Hover \/ Press \/ Hold \/ Release \/ SecondaryDrag

Spec == Init /\ [][Next]_vars

\* ---------------------------------------------------- frames of text input
\* Every String of at most MaxTextLen characters.
Texts == UNION { [1..n -> {"c", NL}] : n \in 0..MaxTextLen }

\* A frame whose keyboard input leaves `text` in a TextEdit of a node; no
\* pointer button is involved.
TextInput(i, f, t) ==
    [Snapshot("none", FALSE, FALSE, None, None, None, None, VecZero, FALSE)
       EXCEPT !.text_edit = Some([node_index |-> i, field |-> f, text |-> t])]

TextEditInputs ==
    { TextInput(i, "content", t) : i \in 1..Len(nodes), t \in Texts }
      \cup { TextInput(i, "title", t) :
               i \in 1..Len(nodes), t \in { x \in Texts : Len(x) <= MaxTitleLen } }

\* The texts a node is constructed with.
Constructed(node) ==
    IF node.id < Len(DefaultApp.nodes) THEN Node(node.id, node.position)
    ELSE AddedNode(node.id)

\* Is the text `field` of node `i` not as constructed?
IsEdited(self, i, field) ==
    IF field = "title" THEN self.nodes[i].title # Constructed(self.nodes[i]).title
    ELSE self.nodes[i].content # Constructed(self.nodes[i]).content

\* The number of texts that are not as constructed.
EditedFields(self) ==
    Cardinality({ e \in (1..Len(self.nodes)) \X {"title", "content"} :
                    IsEdited(self, e[1], e[2]) })

\* The model edits a text that is already edited, or a further one while
\* fewer than MaxEdited are; `call` keeps the frame's edit.
TextEdit ==
    /\ ~primary_down
    /\ \E in \in { e \in TextEditInputs :
                     \/ IsEdited(Self, Unwrap(e.text_edit).node_index, Unwrap(e.text_edit).field)
                     \/ EditedFields(Self) < MaxEdited } :
         /\ FrameApp(in)
         /\ call' = in.text_edit
    /\ UNCHANGED <<envVars, ret>>

NextText == TextEdit \/ Hover

SpecText == Init /\ [][NextText]_vars

\* ------------------------------------------- functions evaluated on their own
\* Coordinates of the points a curve is evaluated on.
Coords == { 100 * k : k \in (0 - 1)..MaxCoord }
Points == Coords \X {0, 165}

\* cubic_bezier_point(p0, p1, p2, p3, i / den)
BezierCalls ==
    { [fn |-> "cubic_bezier_point", p0 |-> a, p1 |-> b, p2 |-> c, p3 |-> d, i |-> i, den |-> SAMPLES] :
        a \in Points, b \in Points, c \in {<<0, 0>>, <<200, 165>>}, d \in Points,
        i \in {0, 1, SAMPLES} }

\* The canvas dragged with the primary button, the pointer moving by `motion`.
PanHold(panel, motion) ==
    Snapshot(panel, TRUE, FALSE, Some(EmptyPoint), Some(Canvas), None, None, motion, FALSE)

\* Frames of an active canvas-pan: the view offset they start from and the
\* motion of the drag.
PanCalls ==
    { [fn |-> "handle_canvas_pan", pan_offset |-> p, motion |-> v] :
        p \in { <<0, 0>>, <<1, 0>>, <<240, 40>>, <<F32_EXACT, 0>> },
        v \in { <<0, 0>>, <<1, 0>>, <<240, 40>>, <<0 - 240, 0 - 40>>, <<0, 0 - F32_EXACT>> } }

\* The application in the middle of a canvas-pan, the view at `p`.
Panning(p) == [DefaultApp EXCEPT !.pan_offset = p, !.dragging_canvas = TRUE]

\* Screen points around node 0 of the demo graph: beside and on the left
\* edge, at and near the input port, at the output port, near the curve of
\* the first connection, on empty canvas.
HitPoints ==
    { <<99, 150>>, <<100, 150>>, <<92, 165>>, <<102, 165>>, <<103, 165>>,
      <<288, 165>>, <<310, 170>>, <<50, 50>> }

\* The three hit-tests at the point q with the view at p, and at q + d with
\* the view at p + d. All coordinates of the demo graph, of p and of d are
\* even, so every sum of a position, a size and a view offset is an f32
\* value; the connection hit-test is called with small shifts only.
HitCalls ==
    { [fn |-> f, pan_offset |-> p, shift |-> d, q |-> q] :
        f \in {"port_at", "is_pointer_over_node"},
        p \in { <<0, 0>>, <<240, 40>> },
        d \in { <<0, 0>>, <<240, 40>>, <<0 - 240, 0 - 40>>, <<F32_EXACT, 0>> },
        q \in HitPoints }
    \cup
    { [fn |-> "hit_test_connection", pan_offset |-> p, shift |-> d, q |-> q] :
        p \in { <<0, 0>>, <<240, 40>> },
        d \in { <<0, 0>>, <<240, 40>>, <<0 - 240, 0 - 40>> },
        q \in HitPoints }

\* The demo graph with the view at `p`.
Viewed(p) == [DefaultApp EXCEPT !.pan_offset = p]

\* One of the three hit-tests.
HitTest(fn, self, pointer) ==
    IF fn = "port_at" THEN port_at(self, pointer)
    ELSE IF fn = "is_pointer_over_node" THEN is_pointer_over_node(self, pointer)
    ELSE hit_test_connection(self, pointer, CONNECTION_HIT_THRESHOLD)

InitFn ==
    /\ nodes = DefaultApp.nodes
    /\ connections = DefaultApp.connections
    /\ pan_offset = DefaultApp.pan_offset
    /\ dragging_canvas = DefaultApp.dragging_canvas
    /\ dragging_link = DefaultApp.dragging_link
    /\ next_node_id = DefaultApp.next_node_id
    /\ primary_down = FALSE
    /\ pressed_on = None
    /\ captured = None
    /\ press_on_empty = FALSE
    /\ call \in { Some(c) : c \in BezierCalls \cup PanCalls \cup HitCalls }
    /\ ret = None

EvalBezier ==
    /\ IsSome(call)
    /\ Unwrap(call).fn = "cubic_bezier_point"
    /\ ret = None
    /\ ret' = Some(cubic_bezier_point(Unwrap(call).p0, Unwrap(call).p1, Unwrap(call).p2,
                                      Unwrap(call).p3, Unwrap(call).i, Unwrap(call).den))
    /\ UNCHANGED <<appVars, envVars, call>>

\* Three runs of frames from the view offset of the call: Reset View and then
\* a frame without motion; one frame of the motion; the motion and then its
\* opposite.
EvalPan ==
    /\ IsSome(call)
    /\ Unwrap(call).fn = "handle_canvas_pan"
    /\ ret = None
    /\ LET start == Panning(Unwrap(call).pan_offset)
           v == Unwrap(call).motion
           once == update(start, PanHold("none", v))
       IN ret' = Some([reset |-> update(update(start, PanHold("reset", VecZero)),
                                        PanHold("none", VecZero)).pan_offset,
                       once |-> once.pan_offset,
                       back |-> update(once, PanHold("none", <<0 - v[1], 0 - v[2]>>)).pan_offset])
    /\ UNCHANGED <<appVars, envVars, call>>

\* The hit-test of the call at q, and at q + d after the view moved by d.
EvalHit ==
    /\ IsSome(call)
    /\ Unwrap(call).fn \in {"port_at", "is_pointer_over_node", "hit_test_connection"}
    /\ ret = None
    /\ LET c == Unwrap(call)
       IN ret' = Some([at |-> HitTest(c.fn, Viewed(c.pan_offset), c.q),
                       shifted |-> HitTest(c.fn, Viewed(AddAssign(c.pan_offset, c.shift)),
                                           AddAssign(c.q, c.shift))])
    /\ UNCHANGED <<appVars, envVars, call>>

NextFn == EvalBezier \/ EvalPan \/ EvalHit

SpecFn == InitFn /\ [][NextFn]_vars

\* The snapshots the next frame can be given in the current state.
EnabledInputs ==
    IF primary_down THEN HoldInputs \cup ReleaseInputs
    ELSE HoverInputs \cup PressInputs \cup SecondaryDragInputs

\* The frame's state when finish_dragging_link_if_needed is called.
BeforeFinish(self, in) ==
    LET s == SidePanel(self, in)
    IN SecondaryClick(UpdateLinkPointer(DrawNodes(s, in, 1, Len(s.nodes)), in), in)

HasConnection(conns, a, b) ==
    \E k \in 1..Len(conns) : conns[k] = Connection(a, b)

CountConnection(conns, a, b) ==
    Cardinality({ k \in 1..Len(conns) : conns[k] = Connection(a, b) })

\* ------------------------------------------------------------------ C1
\* C1: no connection ever joins a node to itself, and a frame that releases
\* a link-drag from node n at a position the port hit-test resolves to n's
\* own input port leaves the collection as it was before the release.
C1_NoSelfLoops ==
    /\ \A k \in 1..Len(connections) :
         connections[k].from_node_id # connections[k].to_node_id
    /\ \A in \in EnabledInputs :
         LET s == BeforeFinish(Self, in) IN
         ( /\ ~in.primary_down
           /\ IsSome(s.dragging_link)
           /\ IsSome(in.interact_pos)
           /\ port_at(s, Unwrap(in.interact_pos))
                = Some(<<Unwrap(s.dragging_link).from_node, Input>>) )
         => update(Self, in).connections = s.connections

\* A link-drag is held and its source node's own input port can be hit.
C1_Witness ==
    /\ primary_down
    /\ IsSome(dragging_link)
    /\ \E in \in ReleaseInputs :
         /\ IsSome(in.interact_pos)
         /\ port_at(Self, Unwrap(in.interact_pos))
              = Some(<<Unwrap(dragging_link).from_node, Input>>)
    /\ Len(connections) > 0

\* ------------------------------------------------------------------ C2
\* C2: the collection never holds the same (from, to) pair twice, and a frame
\* that releases a link-drag from a on b's input port while (a, b) is present
\* leaves the collection as it was before the release.
C2_NoDuplicates ==
    /\ \A j, k \in 1..Len(connections) :
         connections[j] = connections[k] => j = k
    /\ \A in \in EnabledInputs :
         LET s == BeforeFinish(Self, in) IN
         ( /\ ~in.primary_down
           /\ IsSome(s.dragging_link)
           /\ IsSome(in.interact_pos)
           /\ \E b \in { s.nodes[i].id : i \in 1..Len(s.nodes) } :
                /\ port_at(s, Unwrap(in.interact_pos)) = Some(<<b, Input>>)
                /\ HasConnection(s.connections, Unwrap(s.dragging_link).from_node, b) )
         => update(Self, in).connections = s.connections

\* A link-drag from a is held while a connection from a exists and its
\* target's input port can be hit.
C2_Witness ==
    /\ primary_down
    /\ IsSome(dragging_link)
    /\ \E in \in ReleaseInputs, k \in 1..Len(connections) :
         /\ IsSome(in.interact_pos)
         /\ ~in.secondary_clicked
         /\ ~in.clear_clicked
         /\ connections[k].from_node_id = Unwrap(dragging_link).from_node
         /\ port_at(Self, Unwrap(in.interact_pos))
              = Some(<<connections[k].to_node_id, Input>>)

\* ------------------------------------------------------------------ C3
\* C3: link-drag and canvas-pan are never active together, and neither is
\* active while a node header is the dragged widget.
IsHeader(o) == IsSome(o) /\ Unwrap(o).kind = "header"

C3_WitnessLink == IsSome(dragging_link) /\ primary_down
C3_WitnessPan == dragging_canvas /\ pan_offset # VecZero
C4_UniqueIds ==
    /\ \A i, j \in 1..Len(nodes) : nodes[i].id = nodes[j].id => i = j
    /\ \A i \in 1..Len(nodes) : nodes[i].id < next_node_id
    /\ \A in \in EnabledInputs :
         LET new == update(Self, in) IN
         /\ next_node_id <= new.next_node_id
         /\ \A i \in 1..Len(new.nodes) :
              i > Len(nodes) => new.nodes[i].id >= next_node_id

\* Add Node has run, among other operations.
C4_Witness ==
    /\ Len(nodes) > Len(DefaultApp.nodes)
    /\ connections # DefaultApp.connections
    /\ nodes[2].position # DefaultApp.nodes[2].position

\* ------------------------------------------------------------------ C5
\* C5: when a frame with the primary button up ends a link-drag from a,
\* (a, b) is appended exactly if the port hit-test at the pointer returns
\* (b, Input) with b # a and (a, b) absent; otherwise the collection is left
\* as it was before the release; the link-drag state is none afterwards.
CommitTarget(s, in) ==
    LET a == Unwrap(s.dragging_link).from_node
        hit == IF IsSome(in.interact_pos) THEN port_at(s, Unwrap(in.interact_pos)) ELSE None
    IN IF /\ IsSome(hit)
          /\ Unwrap(hit)[2] = Input
          /\ Unwrap(hit)[1] # a
          /\ ~HasConnection(s.connections, a, Unwrap(hit)[1])
       THEN Some(Unwrap(hit)[1])
       ELSE None

C5_LinkRelease ==
    \A in \in EnabledInputs :
        LET s == BeforeFinish(Self, in)
            new == update(Self, in)
        IN (~in.primary_down /\ IsSome(s.dragging_link)) =>
             /\ new.dragging_link = None
             /\ new.connections =
                  IF IsSome(CommitTarget(s, in))
                  THEN Append(s.connections,
                              Connection(Unwrap(s.dragging_link).from_node,
                                         Unwrap(CommitTarget(s, in))))
                  ELSE s.connections

\* A held link-drag that one release commits and another discards.
C5_Witness ==
    /\ primary_down
    /\ IsSome(dragging_link)
    /\ \E in \in ReleaseInputs : IsSome(CommitTarget(BeforeFinish(Self, in), in))
    /\ \E in \in ReleaseInputs :
         /\ IsSome(in.interact_pos)
         /\ ~IsSome(CommitTarget(BeforeFinish(Self, in), in))

\* ------------------------------------------------------------------ C9
\* C9: at the end of every frame in which the primary button is not held,
\* no link-drag and no canvas-pan is active.
C9_ReleaseEndsDrags ==
    /\ ~primary_down => (dragging_link = None /\ ~dragging_canvas)
    /\ \A in \in EnabledInputs :
         ~in.primary_down =>
            LET new == update(Self, in)
            IN new.dragging_link = None /\ ~new.dragging_canvas

\* Back to idle after a gesture that committed a link, with the canvas panned.
C9_Witness ==
    /\ ~primary_down
    /\ pan_offset # VecZero
    /\ \E k \in 1..Len(connections) :
         ~HasConnection(DefaultApp.connections,
                        connections[k].from_node_id, connections[k].to_node_id)

\* ------------------------------------------------------------------ C6
\* One primary-button drag from `p0` to `p1`, frame by frame: the press at
\* p0, the frame in which the pressed widget's drag starts (the pointer has
\* moved to p1), the release at p1.
DragGesture(self, p0, p1) ==
    LET w == WidgetAt(self, p0)
        at_press == IF w = Canvas THEN Some(Canvas) ELSE None
        pressed == update(self, Snapshot("none", TRUE, FALSE, Some(p0), at_press, at_press,
                                         None, VecZero, FALSE))
        held == update(pressed, Snapshot("none", TRUE, FALSE, Some(p1), Some(w),
                                         IF w = Canvas THEN None ELSE Some(w),
                                         None, VecSub(p1, p0), FALSE))
    IN update(held, Snapshot("none", FALSE, TRUE, Some(p1), None, None, Some(w),
                             VecZero, FALSE))

ScenarioStart ==
    /\ ~primary_down
    /\ nodes[1] = Node(0, <<100, 100>>)
    /\ nodes[2] = Node(1, <<340, 140>>)
    /\ pan_offset = VecZero
    /\ connections = <<>>

\* C6: with node 0 at (100,100), node 1 at (340,140), zero pan and no
\* connections, the drag from node 0's output port position to node 1's input
\* port position leaves exactly the connection (0,1), and so does the same
\* drag done again.
C6_Scenario ==
    ScenarioStart =>
      LET p0 == port_pos_screen(Self, nodes[1], Output)
          p1 == port_pos_screen(Self, nodes[2], Input)
          once == DragGesture(Self, p0, p1)
          twice == DragGesture(once, p0, p1)
      IN /\ p0 = <<288, 165>>
         /\ p1 = <<332, 205>>
         /\ once.connections = << Connection(0, 1) >>
         /\ twice.connections = << Connection(0, 1) >>
         /\ once.dragging_link = None
         /\ twice.pan_offset = VecZero

\* The scenario's drag has been done from the scenario's start.
C6_Witness ==
    /\ ~primary_down
    /\ nodes[1] = Node(0, <<100, 100>>)
    /\ nodes[2] = Node(1, <<340, 140>>)
    /\ pan_offset = VecZero
    /\ connections = << Connection(0, 1) >>

\* ------------------------------------------------------------------ C7
\* The state two frames after a press at `p`: the press frame, then the frame
\* in which the drag of the pressed widget starts.
AfterDragStart(self, p) ==
    LET w == WidgetAt(self, p)
        at_press == IF w = Canvas THEN Some(Canvas) ELSE None
        pressed == update(self, Snapshot("none", TRUE, FALSE, Some(p), at_press, at_press,
                                         None, VecZero, FALSE))
    IN update(pressed, Snapshot("none", TRUE, FALSE, Some(p), Some(w),
                                IF w = Canvas THEN None ELSE Some(w),
                                None, VecZero, FALSE))

\* C7: a link-drag begins exactly when the primary press lands where the port
\* hit-test returns (n, Output), and then holds from_node = n and from_port =
\* Output; a press where it returns an input port begins none.
C7_LinkDragStartsOnOutputPort ==
    ~primary_down =>
      \A p \in PressPoints(Self) :
        LET hit == port_at(Self, p)
            link == AfterDragStart(Self, p).dragging_link
        IN /\ IsSome(link) <=> (IsSome(hit) /\ Unwrap(hit)[2] = Output)
           /\ IsSome(link) =>
                /\ Unwrap(link).from_node = Unwrap(hit)[1]
                /\ Unwrap(link).from_port = Output

\* ------------------------------------------------------------------ C8
\* `p` is outside every node's full screen rectangle and farther than the hit
\* radius from every port position.
OutsideNodesAndPorts(s, p) ==
    \A i \in 1..Len(s.nodes) :
      LET r == RectFromMinSize(VecAdd(s.nodes[i].position, s.pan_offset), NODE_SIZE)
          cy == r.min[2] + NODE_H \div 2
      IN /\ ~( /\ r.min[1] <= p[1] /\ p[1] <= r.max[1]
               /\ r.min[2] <= p[2] /\ p[2] <= r.max[2] )
         /\ ~WithinDistance(<<r.min[1] - PORT_OUTSET, cy>>, p, PORT_HIT_RADIUS)
         /\ ~WithinDistance(<<r.max[1] + PORT_OUTSET, cy>>, p, PORT_HIT_RADIUS)

\* Did the gesture the frame `in` belongs to begin on such a point?
GestureOnEmpty(in) ==
    IF primary_down THEN press_on_empty
    ELSE /\ IsSome(in.interact_pos)
         /\ OutsideNodesAndPorts(SidePanel(Self, in), Unwrap(in.interact_pos))

\* C8: canvas-pan is active only in a gesture that the primary button began
\* on the canvas at a point outside every node rectangle and outside the hit
\* radius of every port, and no frame of a gesture begun elsewhere changes
\* the pan_offset the frame's side panel left.
C8_PanOnlyFromEmptyCanvas ==
    /\ dragging_canvas => (primary_down /\ press_on_empty /\ captured = Some(Canvas))
    /\ \A in \in EnabledInputs :
         LET new == update(Self, in) IN
         /\ (~primary_down /\ in.primary_down) =>
               (GestureOnEmpty(in)
                  <=> StartsOnEmptyCanvas(SidePanel(Self, in), in.interact_pos))
         /\ (new.dragging_canvas /\ ~dragging_canvas) =>
               /\ ~primary_down
               /\ in.primary_down
               /\ in.drag_started = Some(Canvas)
               /\ GestureOnEmpty(in)
         /\ ((primary_down \/ in.primary_down) /\ ~GestureOnEmpty(in)) =>
               new.pan_offset = SidePanel(Self, in).pan_offset

\* The canvas is the dragged widget of a gesture begun over a node body or
\* within the hit radius of a port, with the view already panned.
C8_Witness ==
    /\ primary_down
    /\ captured = Some(Canvas)
    /\ ~press_on_empty
    /\ pan_offset # VecZero

\* ----------------------------------------------------------------- C10
\* The connection the secondary click of the frame removes, if any.
RemovedByClick(s, in) ==
    IF in.secondary_clicked /\ IsSome(in.interact_pos)
    THEN LET index == hit_test_connection(s, Unwrap(in.interact_pos),
                                          CONNECTION_HIT_THRESHOLD)
         IN IF IsSome(index) THEN Some(s.connections[Unwrap(index)]) ELSE None
    ELSE None

\* C10: the steps of a frame take effect in the order side panel, node pass,
\* link pointer, secondary click, link completion, pan: a connection (a, b)
\* removed by the frame's click is present after the frame when the frame
\* also releases a link-drag from a on b's input port; Clear Links in a frame
\* that commits a link leaves just that link; Reset View in a frame that pans
\* leaves the frame's motion as pan_offset; and the pan step of a frame that
\* completes a link-drag leaves pan_offset alone.
C10_FrameOrder ==
    \A in \in EnabledInputs :
      LET panel == SidePanel(Self, in)
          drawn == UpdateLinkPointer(DrawNodes(panel, in, 1, Len(panel.nodes)), in)
          removed == RemovedByClick(drawn, in)
          new == update(Self, in)
          completes == IsSome(drawn.dragging_link) /\ ~in.primary_down
      IN /\ ( /\ completes
              /\ IsSome(removed)
              /\ Unwrap(removed).from_node_id = Unwrap(drawn.dragging_link).from_node
              /\ port_at(drawn, Unwrap(in.interact_pos))
                   = Some(<<Unwrap(removed).to_node_id, Input>>) )
            => CountConnection(new.connections, Unwrap(removed).from_node_id,
                               Unwrap(removed).to_node_id) = 1
         /\ ( /\ completes
              /\ in.clear_clicked
              /\ ~in.secondary_clicked
              /\ IsSome(CommitTarget(drawn, in)) )
            => new.connections =
                 << Connection(Unwrap(drawn.dragging_link).from_node,
                               Unwrap(CommitTarget(drawn, in))) >>
         /\ ( /\ in.reset_clicked
              /\ dragging_canvas
              /\ dragged_by_primary(in, Canvas) )
            => new.pan_offset = in.drag_motion
         /\ completes => new.pan_offset = panel.pan_offset

\* C10 as stated: the same ordering, with pan_offset after a frame that
\* completes a link-drag equal to pan_offset before that frame, whatever the
\* side panel did in it.
C10_AsStated ==
    \A in \in EnabledInputs :
      LET panel == SidePanel(Self, in)
          drawn == UpdateLinkPointer(DrawNodes(panel, in, 1, Len(panel.nodes)), in)
          removed == RemovedByClick(drawn, in)
          new == update(Self, in)
          completes == IsSome(drawn.dragging_link) /\ ~in.primary_down
      IN /\ ( /\ completes
              /\ IsSome(removed)
              /\ Unwrap(removed).from_node_id = Unwrap(drawn.dragging_link).from_node
              /\ port_at(drawn, Unwrap(in.interact_pos))
                   = Some(<<Unwrap(removed).to_node_id, Input>>) )
            => CountConnection(new.connections, Unwrap(removed).from_node_id,
                               Unwrap(removed).to_node_id) = 1
         /\ completes => new.pan_offset = pan_offset

\* A held link-drag from a whose release on b's input port can come with a
\* secondary click that removes (a, b).
C10_Witness ==
    /\ primary_down
    /\ IsSome(dragging_link)
    /\ \E in \in ReleaseInputs :
         LET removed == RemovedByClick(Self, in) IN
         /\ IsSome(removed)
         /\ Unwrap(removed).from_node_id = Unwrap(dragging_link).from_node
         /\ port_at(Self, Unwrap(in.interact_pos)) = Some(<<Unwrap(removed).to_node_id, Input>>)

\* ----------------------------------------------------------------- C11
\* A frame with no button held whose input is a secondary click at `p`.
ClickAt(p) == Snapshot("none", FALSE, FALSE, Some(p), None, None, None, VecZero, TRUE)

\* Click points: empty canvas, a point of every connection's curve, every port.
ClickProbes ==
    {EmptyPoint}
      \cup { LinkMid(Self, k) : k \in 1..Len(connections) }
      \cup UNION { PortPoints(Self, i) : i \in 1..Len(nodes) }

\* The connections of `self` whose sampled curve is within the threshold of `p`.
NearConnections(self, p) ==
    { k \in 1..Len(self.connections) :
        ConnectionNear(self, self.connections[k], p, CONNECTION_HIT_THRESHOLD) }

\* `after` is `before` without its entry `k`, the others in the same order.
IsWithout(after, before, k) ==
    /\ Len(after) = Len(before) - 1
    /\ \A j \in 1..Len(after) : after[j] = IF j < k THEN before[j] ELSE before[j + 1]

\* `self` with a connection to a node id that does not exist put first.
WithDangling(self) ==
    [self EXCEPT !.connections = << Connection(0, self.next_node_id) >> \o self.connections]

ShortTextInputs ==
    { TextInput(i, f, t) :
        i \in 1..Len(nodes), f \in {"title", "content"}, t \in { <<>>, <<"c">>, <<NL, "c">> } }

\* The canvas-pan is active in the frame `in`: the canvas is dragged by the
\* primary button in a gesture begun on empty canvas.
PanActive(in) == dragged_by_primary(in, Canvas) /\ GestureOnEmpty(in)

\* C12: pan_offset changes only by Reset View and by an active canvas-pan
\* drag: Add Node, Clear Links, the node pass (node-drag, link-drag start,
\* text edits), the link pointer update, the secondary click and the link
\* completion leave it as it is.
C12_PanChangedOnlyByPanAndReset ==
    \A in \in EnabledInputs \cup (IF primary_down THEN {} ELSE ShortTextInputs) :
      LET panel == SidePanel(Self, in)
          finished == finish_dragging_link_if_needed(BeforeFinish(Self, in), in)
          new == update(Self, in)
      IN /\ ~in.reset_clicked => panel.pan_offset = pan_offset
         /\ finished.pan_offset = panel.pan_offset
         /\ ~PanActive(in) => new.pan_offset = panel.pan_offset
         /\ (~in.reset_clicked /\ ~PanActive(in)) => new.pan_offset = pan_offset

\* The view is panned and a link-drag is held: its frames, and a Clear Links
\* or Add Node click in them, have a pan_offset to leave alone.
C12_Witness ==
    /\ pan_offset # VecZero
    /\ primary_down
    /\ IsSome(dragging_link)
    /\ \E in \in EnabledInputs : in.clear_clicked

\* ----------------------------------------------------------------- C13
\* C13: Reset View sets pan_offset to (0,0) and it stays (0,0) in a frame
\* without drag motion; a frame of an active canvas-pan adds the frame's drag
\* motion to pan_offset; a pan by v and then by -v ends at the pan_offset it
\* began with.
C13_PanArithmetic ==
    (IsSome(call) /\ Unwrap(call).fn = "handle_canvas_pan" /\ IsSome(ret)) =>
      LET p == Unwrap(call).pan_offset
          v == Unwrap(call).motion
      IN /\ Unwrap(ret).reset = VecZero
         /\ Unwrap(ret).once = <<p[1] + v[1], p[2] + v[2]>>
         /\ Unwrap(ret).back = p

\* ----------------------------------------------------------------- C14
\* The centre of the input and of the output port of node `i` on the screen.
InputCentre(self, i) ==
    << self.nodes[i].position[1] + self.pan_offset[1] - PORT_OUTSET,
       self.nodes[i].position[2] + self.pan_offset[2] + self.nodes[i].size[2] \div 2 >>

OutputCentre(self, i) ==
    << self.nodes[i].position[1] + self.pan_offset[1] + self.nodes[i].size[1] + PORT_OUTSET,
       self.nodes[i].position[2] + self.pan_offset[2] + self.nodes[i].size[2] \div 2 >>

\* The nodes of `self` with a port centre within the hit radius of `p`.
NodesWithPortAt(self, p) ==
    { i \in 1..Len(self.nodes) :
        \/ WithinDistance(InputCentre(self, i), p, PORT_HIT_RADIUS)
        \/ WithinDistance(OutputCentre(self, i), p, PORT_HIT_RADIUS) }

\* Node `i` is at world position (100,100) with the default size, the view
\* is not panned.
AtHundred(i) ==
    /\ nodes[i].position = <<100, 100>>
    /\ nodes[i].size = NODE_SIZE
    /\ pan_offset = VecZero

Narrowed(self, i) == [self EXCEPT !.nodes[i].size = <<2, NODE_H>>]

\* C19: port_at returns the first node in collection order with a port
\* centre within the hit radius (10) of the pointer, with Input when that
\* node's input port is within it and Output otherwise, and none when no
\* node has one.
C19_PortAtFirstNode ==
    /\ \A p \in PressPoints(Self) :
         LET hits == NodesWithPortAt(Self, p)
             first == CHOOSE i \in hits : \A j \in hits : i <= j
         IN port_at(Self, p) =
              IF hits = {} THEN None
              ELSE Some(<< nodes[first].id,
                           IF WithinDistance(InputCentre(Self, first), p, PORT_HIT_RADIUS)
                           THEN Input ELSE Output >>)
    /\ \A i \in 1..Len(nodes) :
         LET narrow == Narrowed(Self, i)
             p == << InputCentre(narrow, i)[1] + 9, InputCentre(narrow, i)[2] >>
         IN (\A j \in NodesWithPortAt(narrow, p) : j >= i)
              => port_at(narrow, p) = Some(<<nodes[i].id, Input>>)

\* The ports of two nodes are under one pointer position, and no port is
\* under another.
C19_Witness ==
    /\ \E p \in PressPoints(Self) : Cardinality(NodesWithPortAt(Self, p)) >= 2
    /\ \E p \in PressPoints(Self) : NodesWithPortAt(Self, p) = {}
    /\ pan_offset # VecZero

\* ----------------------------------------------------------------- C15
\* Some node of `self` carries the id.
Resolves(self, id) == \E i \in 1..Len(self.nodes) : self.nodes[i].id = id

\* `self` with a connection from a node id that does not exist put first.
WithDanglingFrom(self) ==
    [self EXCEPT !.connections = << Connection(self.next_node_id, 0) >> \o self.connections]

\* C15: both ids of every connection resolve through node_by_id; a frame
\* adds a connection only from the link-drag's source node to the node the
\* port hit-test returns, and removes no node; drawing and the connection
\* hit-test skip a connection with an endpoint that does not resolve.
C15_ConnectionsResolve ==
    /\ \A k \in 1..Len(connections) :
         /\ Resolves(Self, connections[k].from_node_id)
         /\ IsSome(node_by_id(Self, connections[k].from_node_id))
         /\ Unwrap(node_by_id(Self, connections[k].from_node_id)).id = connections[k].from_node_id
         /\ Resolves(Self, connections[k].to_node_id)
         /\ IsSome(node_by_id(Self, connections[k].to_node_id))
         /\ Unwrap(node_by_id(Self, connections[k].to_node_id)).id = connections[k].to_node_id
    /\ ~IsSome(node_by_id(Self, next_node_id))
    /\ Len(draw_connections(Self)) = Len(connections)
    /\ draw_connections(WithDangling(Self)) = draw_connections(Self)
    /\ draw_connections(WithDanglingFrom(Self)) = draw_connections(Self)
    /\ \A k \in 1..Len(connections) :
         hit_test_connection(WithDanglingFrom(Self), LinkMid(Self, k), CONNECTION_HIT_THRESHOLD)
           \in { Some(j + 1) : j \in 1..k }
    /\ \A in \in EnabledInputs :
         LET before == BeforeFinish(Self, in)
             new == update(Self, in)
         IN /\ Len(new.nodes) >= Len(nodes)
            /\ \A i \in 1..Len(nodes) : new.nodes[i].id = nodes[i].id
            /\ \A k \in 1..Len(before.connections) :
                 \E j \in 1..Len(connections) : before.connections[k] = connections[j]
            /\ \A k \in 1..Len(new.connections) :
                 \/ \E j \in 1..Len(before.connections) :
                        new.connections[k] = before.connections[j]
                 \/ /\ k = Len(new.connections)
                    /\ IsSome(before.dragging_link)
                    /\ IsSome(in.interact_pos)
                    /\ IsSome(port_at(before, Unwrap(in.interact_pos)))
                    /\ new.connections[k] =
                         Connection(Unwrap(before.dragging_link).from_node,
                                    Unwrap(port_at(before, Unwrap(in.interact_pos)))[1])
                    /\ Resolves(new, new.connections[k].from_node_id)
                    /\ Resolves(new, new.connections[k].to_node_id)

\* A link-drag is held over the input port of an added node, with a
\* connection in the collection: its release commits a connection to a node
\* that was not there at the start.
C15_Witness ==
    /\ IsSome(dragging_link)
    /\ Len(connections) >= 1
    /\ \E in \in ReleaseInputs :
         /\ Len(update(Self, in).connections) > Len(connections)
         /\ update(Self, in).connections[Len(connections) + 1].to_node_id >= DefaultApp.next_node_id

\* ----------------------------------------------------------------- C16
\* The positions of the '\n' characters of a text.
Newlines(text) == { k \in 1..Len(text) : text[k] = NL }

LineCount(text) == Cardinality(Newlines(text)) + 1

\* The first `n` lines of a text: the text up to its n-th '\n', all of it
\* when it has fewer.
FirstLines(text, n) ==
    IF LineCount(text) <= n THEN text
    ELSE LET cut == CHOOSE k \in Newlines(text) :
                        Cardinality({ j \in Newlines(text) : j <= k }) = n
         IN SubSeq(text, 1, cut - 1)

\* Node rectangles of several heights, the default one among them.
RectHeights == {0, 30, 55, 56, 73, 74, 91, 92, NODE_H, 200}

\* C16: each node's content has at most max_content_lines lines, which is 4
\* for the default node size and at least 1 for every height; the content an
\* edit leaves is the first max_content_lines lines of the typed text;
\* clamp_text_lines keeps the first max_lines lines, leaves a text that fits
\* unchanged and is idempotent.
C16_ContentClamped ==
    /\ \A i \in 1..Len(nodes) :
         /\ max_content_lines(node_rect_screen(Self, nodes[i])) = 4
         /\ LineCount(nodes[i].content) <= 4
    /\ \A h \in RectHeights :
         /\ max_content_lines(RectFromMinSize(pan_offset, <<NODE_W, h>>)) >= 1
         /\ h >= 74 =>
              max_content_lines(RectFromMinSize(pan_offset, <<NODE_W, h>>)) = (h - 56) \div 18
    /\ (IsSome(call) /\ Unwrap(call).field = "content") =>
         nodes[Unwrap(call).node_index].content = FirstLines(Unwrap(call).text, 4)
    /\ \A t \in Texts : \A n \in 1..4 :
         /\ clamp_text_lines(t, n) = FirstLines(t, n)
         /\ LineCount(clamp_text_lines(t, n)) <= n
         /\ LineCount(t) <= n => clamp_text_lines(t, n) = t
         /\ clamp_text_lines(clamp_text_lines(t, n), n) = clamp_text_lines(t, n)

\* The last edit typed more than four lines into a node's content, and the
\* content is not the typed text.
C16_Witness ==
    /\ IsSome(call)
    /\ Unwrap(call).field = "content"
    /\ LineCount(Unwrap(call).text) > 4
    /\ Unwrap(call).text[1] = "c"
    /\ nodes[Unwrap(call).node_index].content # Unwrap(call).text

\* ----------------------------------------------------------------- C17
\* The call evaluated is cubic_bezier_point.
BezierEvaluated ==
    /\ IsSome(call)
    /\ Unwrap(call).fn = "cubic_bezier_point"
    /\ IsSome(ret)

\* C17: cubic_bezier_point at t = 0 returns p0 and at t = 1 returns p3,
\* whatever the control points p1 and p2.
C17_BezierEndpoints ==
    BezierEvaluated =>
      /\ Unwrap(call).i = 0 => Unwrap(ret) = Unwrap(call).p0
      /\ Unwrap(call).i = Unwrap(call).den => Unwrap(ret) = Unwrap(call).p3

\* The curve was evaluated at t = 1 with four different points.
C17_Witness ==
    /\ BezierEvaluated
    /\ Unwrap(call).i = Unwrap(call).den
    /\ Cardinality({Unwrap(call).p0, Unwrap(call).p1, Unwrap(call).p2, Unwrap(call).p3}) = 4
    /\ Unwrap(call).p0[1] < 0

\* ----------------------------------------------------------------- C18
\* C18: with (a,b) in the collection and (b,a) not, the release of a
\* link-drag from b at a position the port hit-test resolves to a's input
\* port appends (b,a): the collection then holds both.
C18_DirectionalDuplicateCheck ==
    primary_down =>
      \A in \in ReleaseInputs :
        LET before == BeforeFinish(Self, in)
            new == update(Self, in)
            target == IF IsSome(in.interact_pos)
                      THEN port_at(before, Unwrap(in.interact_pos))
                      ELSE None
        IN (/\ IsSome(before.dragging_link)
            /\ IsSome(target)
            /\ Unwrap(target)[2] = Input
            /\ Unwrap(target)[1] # Unwrap(before.dragging_link).from_node
            /\ HasConnection(before.connections, Unwrap(target)[1],
                             Unwrap(before.dragging_link).from_node)
            /\ ~HasConnection(before.connections, Unwrap(before.dragging_link).from_node,
                              Unwrap(target)[1]))
           => /\ new.connections =
                   Append(before.connections,
                          Connection(Unwrap(before.dragging_link).from_node, Unwrap(target)[1]))
              /\ HasConnection(new.connections, Unwrap(target)[1],
                               Unwrap(before.dragging_link).from_node)
              /\ HasConnection(new.connections, Unwrap(before.dragging_link).from_node,
                               Unwrap(target)[1])
              /\ ~IsSome(new.dragging_link)

\* The collection holds a connection and its opposite.
C18_Witness ==
    /\ ~primary_down
    /\ \E a \in 0..(next_node_id - 1) : \E b \in 0..(next_node_id - 1) :
         /\ a # b
         /\ CountConnection(connections, a, b) = 1
         /\ CountConnection(connections, b, a) = 1

\* ----------------------------------------------------------------- C20
\* The frame `in` drags the header of node `i` with the primary button.
DragsHeader(in, i) == in.primary_down /\ in.dragged = Some(Widget("header", i))

\* What a frame that drags the header of node `i` does to the nodes: the
\* frame's motion is added to the position of node `i`, the other positions
\* and every id and size stay.
MovesOnly(new, in, i) ==
    /\ new.nodes[i].position = << nodes[i].position[1] + in.drag_motion[1],
                                  nodes[i].position[2] + in.drag_motion[2] >>
    /\ \A j \in 1..Len(nodes) :
         /\ j # i => new.nodes[j].position = nodes[j].position
         /\ new.nodes[j].id = nodes[j].id
         /\ new.nodes[j].size = nodes[j].size

\* C20: a frame in which a node's header is dragged with the primary button
\* adds the frame's drag motion to that node's position and to no other;
\* every id and size stays; the connection collection, pan_offset,
\* next_node_id and the number of nodes are as the side panel of the frame
\* leaves them, which is unchanged unless Clear Links, Reset View or Add Node
\* is activated in that frame.
C20_NodeDragMovesOneNode ==
    primary_down =>
      \A in \in HoldInputs : \A i \in 1..Len(nodes) :
        DragsHeader(in, i) =>
          LET panel == SidePanel(Self, in)
              new == update(Self, in)
          IN /\ MovesOnly(new, in, i)
             /\ new.connections = panel.connections
             /\ new.pan_offset = panel.pan_offset
             /\ new.next_node_id = panel.next_node_id
             /\ Len(new.nodes) = Len(panel.nodes)
             /\ ~in.clear_clicked => new.connections = connections
             /\ ~in.reset_clicked => new.pan_offset = pan_offset
             /\ ~in.add_clicked => (new.next_node_id = next_node_id /\ Len(new.nodes) = Len(nodes))
             /\ ~new.dragging_canvas
             /\ ~IsSome(new.dragging_link)

\* C20 as stated: the connection collection, pan_offset and next_node_id are
\* unchanged by every frame of a node-drag.
C20_AsStated ==
    primary_down =>
      \A in \in HoldInputs : \A i \in 1..Len(nodes) :
        DragsHeader(in, i) =>
          LET new == update(Self, in)
          IN /\ MovesOnly(new, in, i)
             /\ new.connections = connections
             /\ new.pan_offset = pan_offset
             /\ new.next_node_id = next_node_id

\* The header of a node is being dragged and the node has moved, with the
\* view panned and connections in the collection.
C20_Witness ==
    /\ primary_down
    /\ IsHeader(captured)
    /\ \E j \in 1..Len(DefaultApp.nodes) : nodes[j].position # DefaultApp.nodes[j].position
    /\ pan_offset # VecZero
    /\ Len(connections) >= 2

\* ----------------------------------------------------------------- C21
\* C21: add_node appends one node at the end of the collection, with the
\* id next_node_id had, the default size and the position (220 + 24*id, 220);
\* it adds one to next_node_id and leaves the existing nodes and their
\* order, the connections, pan_offset and the drag state as they are. No
\* frame removes a node or changes the order of the nodes.
C21_AddNodeAppends ==
    /\ LET new == add_node(Self)
           added == new.nodes[Len(new.nodes)]
       IN /\ Len(new.nodes) = Len(nodes) + 1
          /\ added.id = next_node_id
          /\ added.size = <<180, 130>>
          /\ added.position = <<220 + 24 * next_node_id, 220>>
          /\ new.next_node_id = next_node_id + 1
          /\ \A i \in 1..Len(nodes) : new.nodes[i] = nodes[i]
          /\ new.connections = connections
          /\ new.pan_offset = pan_offset
          /\ new.dragging_canvas = dragging_canvas
          /\ new.dragging_link = dragging_link
    /\ \A in \in EnabledInputs :
         LET panel == SidePanel(Self, in)
             new == update(Self, in)
         IN /\ in.add_clicked => panel = add_node(Self)
            /\ ~in.add_clicked => (panel.nodes = nodes /\ panel.next_node_id = next_node_id)
            /\ Len(new.nodes) = Len(panel.nodes)
            /\ new.next_node_id = panel.next_node_id
            /\ \A i \in 1..Len(nodes) : new.nodes[i].id = nodes[i].id
            /\ in.add_clicked =>
                 new.nodes[Len(new.nodes)].id = next_node_id

\* Two nodes were added while a node was away from the place it was
\* constructed at, and a link-drag is held.
C21_Witness ==
    /\ Len(nodes) = Len(DefaultApp.nodes) + 2
    /\ next_node_id = DefaultApp.next_node_id + 2
    /\ IsSome(dragging_link)
    /\ \E j \in 1..Len(DefaultApp.nodes) : nodes[j].position # DefaultApp.nodes[j].position

\* ----------------------------------------------------------------- C22
\* C22: Clear Links empties the connection collection in every state and
\* leaves the nodes, next_node_id, pan_offset and the drag state as they
\* are; with the collection empty, the release of a link-drag from a at a
\* position the port hit-test resolves to the input port of another node b
\* commits (a,b), whatever was in the collection before.
C22_ClearLinks ==
    \A in \in EnabledInputs :
      LET panel == SidePanel(Self, in)
          before == BeforeFinish(Self, in)
          new == update(Self, in)
          target == IF IsSome(in.interact_pos)
                    THEN port_at(before, Unwrap(in.interact_pos))
                    ELSE None
      IN /\ in.clear_clicked =>
              /\ panel.connections = << >>
              /\ panel.nodes = nodes
              /\ panel.next_node_id = next_node_id
              /\ panel.pan_offset = pan_offset
              /\ panel.dragging_link = dragging_link
              /\ panel.dragging_canvas = dragging_canvas
              /\ before.connections = << >>
              /\ new.next_node_id = next_node_id
              /\ Len(new.nodes) = Len(nodes)
              /\ Len(new.connections) <= 1
         /\ (/\ before.connections = << >>
             /\ ~in.primary_down
             /\ IsSome(before.dragging_link)
             /\ IsSome(target)
             /\ Unwrap(target)[2] = Input
             /\ Unwrap(target)[1] # Unwrap(before.dragging_link).from_node)
            => new.connections =
                 << Connection(Unwrap(before.dragging_link).from_node, Unwrap(target)[1]) >>

\* The collection is empty, the view is panned, and a link-drag is held whose
\* release commits a connection the graph was constructed with.
C22_Witness ==
    /\ connections = << >>
    /\ pan_offset # VecZero
    /\ IsSome(dragging_link)
    /\ \E in \in ReleaseInputs :
         update(Self, in).connections \in { << c >> : c \in {Connection(0, 1), Connection(1, 2)} }

\* ----------------------------------------------------------------- C23
\* The frame that releases the primary button with the pointer at `p`.
ReleaseAt(p) == Snapshot("none", FALSE, TRUE, Some(p), None, None, captured, VecZero, FALSE)

\* C23: with a link-drag from node a held and no connection (a,b) to another
\* node b, the release at b's input port screen position commits (a,b).
C23_ReleaseOnInputPortCommits ==
    (primary_down /\ IsSome(dragging_link)) =>
      \A j \in 1..Len(nodes) :
        LET a == Unwrap(dragging_link).from_node
            b == nodes[j].id
            new == update(Self, ReleaseAt(port_pos_screen(Self, nodes[j], Input)))
        IN (a # b /\ ~HasConnection(connections, a, b)) =>
             /\ HasConnection(new.connections, a, b)
             /\ Len(new.connections) = Len(connections) + 1

\* ----------------------------------------------------------------- C24
\* A hit-test was evaluated at a point and at the shifted point.
HitEvaluated ==
    /\ IsSome(call)
    /\ Unwrap(call).fn \in {"port_at", "is_pointer_over_node", "hit_test_connection"}
    /\ IsSome(ret)

\* C24: port_at, is_pointer_over_node and hit_test_connection at q + d with
\* pan_offset p + d give what they give at q with pan_offset p.
C24_HitTestPanInvariant ==
    HitEvaluated => Unwrap(ret).shifted = Unwrap(ret).at

\* The same for shifts that keep every coordinate below 2^24 in magnitude.
C24_ExactShifts ==
    (HitEvaluated /\ Unwrap(call).shift[1] < F32_EXACT) =>
        Unwrap(ret).shifted = Unwrap(ret).at

====
